---------------------------- MODULE Spec2Model ----------------------------
(***************************************************************************)
(* State-machine model of the AML research pipeline: the SQLite-backed     *)
(* DatabaseManager (src/src/database.py), the summary request handler of   *)
(* the web application (src/app.py), the ingestion cycles                  *)
(* (src/app.py update_research, src/src/scheduler.py weekly_update) and    *)
(* the fetcher (src/src/pubmed_scraper.py).  Operations run to completion  *)
(* in one step, except the requests to the search service and              *)
(* save_research_summary, which are also modelled thread by thread.        *)
(*                                                                         *)
(* Encoding.  Dates are 'YYYY-MM-DD' strings in the program and are only   *)
(* compared and maximised; they are modelled as positive integers (days),  *)
(* and 0 stands for a NULL / missing date.  A missing text value (Python   *)
(* None, SQL NULL) is the string None.  Tables are sets of rows; a row's   *)
(* id column is given by the table's AUTOINCREMENT sequence.  The text a   *)
(* collaborator generates is opaque: the n-th generated summary is the     *)
(* token n.                                                                *)
(***************************************************************************)
EXTENDS Integers, Sequences, FiniteSets, TLC

\* ------------------------------------------------------------------ bounds
MaxPaperId == 2     \* cap on the papers AUTOINCREMENT sequence
MaxTermId  == 2     \* cap on the key_terms AUTOINCREMENT sequence
MaxVersion == 2     \* cap on settings.summary_version
MaxSummaryTermId == 1 \* cap on the key_terms sequence in the summary runs
MaxBatch   == 2     \* longest batch of fetched records in one cycle
MaxRequests == 3    \* cap on the requests sent to the search service
MaxSaves   == 3     \* cap on the save_research_summary calls of the concurrent runs
MaxSpecializedId == 2 \* cap on the specialized_summaries AUTOINCREMENT sequence
MaxLoops   == 3     \* cap on the threads start_scheduler starts

None     == "None"
NullDate == 0

Pmids     == {"p1", "p2"}
Titles    == {"A", "B"}
Dates     == {1, 2}
Languages == {"en", "fr"}

\* str.lower() on the term strings of the model
Lower(t) ==
    CASE t = "TP53" -> "tp53"
      [] t = "MDM2" -> "mdm2"
      [] OTHER      -> t

\* Term lists handed to insert_key_terms / carried by a record
TermLists ==
    {<<>>, <<"TP53">>, <<"mdm2">>, <<"TP53", "tp53">>, <<"TP53", "mdm2">>}

\* The dictionaries handed to insert_paper
PaperData ==
    [pmid : Pmids \cup {None}, title : Titles \cup {None},
     publish_date : Dates \cup {NullDate}, key_terms : {<<>>, <<"TP53">>}]

\* Records as the term-index runs need them: the stored fields are fixed
IndexPaperData ==
    [pmid : Pmids, title : {"A"}, publish_date : {1}, key_terms : {<<>>, <<"TP53">>}]

VARIABLES
    papers,             \* table papers: rows [id, pmid, title, publish_date, key_terms]
    paperSeq,           \* sqlite_sequence of papers
    key_terms,          \* table key_terms: rows [id, term, frequency]
    termSeq,            \* sqlite_sequence of key_terms
    paper_terms,        \* table paper_terms: rows [paper_id, term_id]
    linked,             \* history: <<paper_id, normalized term>> of every association written
    research_summaries, \* table research_summaries, rows in insertion order
    settings,           \* table settings: [last_update_date, summary_version]
    system_metadata,    \* table system_metadata: [last_update]
    timeline_entries,   \* table timeline_entries, rows in insertion order
    created,            \* history: version and language (thread by thread: the row) of every save
    result,             \* what the last operation returned / did
    callers,            \* per thread that uses a PubMedScraper: where it is in a request
    wire,               \* the search service's view: time since the last request, requests sent
    savers,             \* per thread that runs save_research_summary: where it is, its locals
    specialized_summaries, \* table specialized_summaries: rows [id, name, language, ...]
    specializedSeq,     \* sqlite_sequence of specialized_summaries
    catalog_history,    \* history: the rows successful saves wrote, the saved ids deleted since
    running,            \* WeeklyScheduler.running
    jobs,               \* the jobs registered with the schedule module: rows [id, due]
    loops               \* per thread start_scheduler can start: where it is in _run_scheduler

vars == <<papers, paperSeq, key_terms, termSeq, paper_terms, linked,
          research_summaries, settings, system_metadata, timeline_entries,
          created, result, callers, wire, savers,
          specialized_summaries, specializedSeq, catalog_history,
          running, jobs, loops>>

storeVars   == <<papers, paperSeq>>
indexVars   == <<key_terms, termSeq, paper_terms, linked>>
summaryVars == <<research_summaries, settings, created>>
cycleVars   == <<system_metadata, timeline_entries>>
threadVars  == <<callers, wire, savers>>
catalogVars == <<specialized_summaries, specializedSeq, catalog_history>>
schedulerVars == <<running, jobs, loops>>

\* The threads that send requests: a request handler of the web application
\* (module-level scraper) and the scheduler thread (its own PubMedScraper)
Callers == {"manual", "scheduled"}

\* The request handler threads that can be inside save_research_summary
Savers == {"w1", "w2"}

\* self.request_delay = 0.34 seconds, in clock ticks
request_delay == 2

\* The threads start_scheduler can start, in the order it starts them
Loops == 1..MaxLoops

\* Default values written by init_database
InitialLastUpdateDate == 1
InitialSummaryVersion == 0

Init ==
    /\ papers = {}
    /\ paperSeq = 0
    /\ key_terms = {}
    /\ termSeq = 0
    /\ paper_terms = {}
    /\ linked = {}
    /\ research_summaries = <<>>
    /\ settings = [last_update_date |-> InitialLastUpdateDate,
                   summary_version |-> InitialSummaryVersion]
    /\ system_metadata = [last_update |-> NullDate]
    /\ timeline_entries = <<>>
    /\ created = <<>>
    /\ result = [op |-> "init"]
    /\ callers = [c \in Callers |-> [pc |-> "idle", wait |-> 0]]
    /\ wire = [since_last |-> 0, sent |-> 0]
    /\ savers = [w \in Savers |-> [pc |-> "idle"]]
    /\ specialized_summaries = {}
    /\ specializedSeq = 0
    /\ catalog_history = [saved |-> {}, deleted |-> {}]
    /\ running = FALSE
    /\ jobs = {}
    /\ loops = [k \in Loops |-> [pc |-> "unborn", todo |-> {}]]

\* ------------------------------------------------------------ Record Store

\* INSERT OR REPLACE INTO papers: rows in conflict on the UNIQUE pmid are
\* deleted and the new row gets the next AUTOINCREMENT id.  A NULL pmid
\* conflicts with nothing.
PaperConflicts(rows, d) ==
    {r \in rows : d.pmid # None /\ r.pmid = d.pmid}

NewPaperRow(seq, d) ==
    [id |-> seq + 1, pmid |-> d.pmid, title |-> d.title,
     publish_date |-> d.publish_date, key_terms |-> d.key_terms]

\* INSERT OR IGNORE in place of INSERT OR REPLACE: a conflicting row stays
UpsertPaperRows_Ignore(rows, seq, d) ==
    IF PaperConflicts(rows, d) # {} THEN rows ELSE rows \cup {NewPaperRow(seq, d)}

UpsertPaperRows(rows, seq, d) ==
    (rows \ PaperConflicts(rows, d)) \cup {NewPaperRow(seq, d)}

\* the SELECT after the INSERT finding the row of a NULL pmid
InsertPaperOutcome_NullPmidRowFound(d) ==
    IF d.title = None THEN "not_null_title"
    ELSE IF d.key_terms # <<>> THEN "database_locked"
    ELSE "ok"

\* Why insert_paper raises (and rolls its transaction back), or "ok":
\*  - title is NOT NULL;
\*  - SELECT id ... WHERE pmid = NULL finds no row, fetchone()[0] raises;
\*  - insert_key_terms writes through a second connection while the first
\*    holds the write lock of the uncommitted INSERT: "database is locked".
InsertPaperOutcome(d) ==
    IF d.title = None THEN "not_null_title"
    ELSE IF d.pmid = None THEN "no_row_for_null_pmid"
    ELSE IF d.key_terms # <<>> THEN "database_locked"
    ELSE "ok"

\* the rollback missing: what the INSERT wrote before the exception stays
InsertPaper_NoRollback(rows, seq, d) ==
    IF InsertPaperOutcome(d) = "ok"
    THEN [papers |-> UpsertPaperRows(rows, seq, d), paperSeq |-> seq + 1,
          ok |-> TRUE, replaced |-> PaperConflicts(rows, d)]
    ELSE IF InsertPaperOutcome(d) = "not_null_title"
    THEN [papers |-> rows, paperSeq |-> seq, ok |-> FALSE, replaced |-> {}]
    ELSE [papers |-> UpsertPaperRows(rows, seq, d), paperSeq |-> seq + 1,
          ok |-> FALSE, replaced |-> {}]

\* insert_paper as a function of the tables: commit on success, rollback
\* (also of the AUTOINCREMENT sequence) when anything raised.
InsertPaper(rows, seq, d) ==
    IF InsertPaperOutcome(d) = "ok"
    THEN [papers |-> UpsertPaperRows(rows, seq, d), paperSeq |-> seq + 1,
          ok |-> TRUE, replaced |-> PaperConflicts(rows, d)]
    ELSE [papers |-> rows, paperSeq |-> seq, ok |-> FALSE, replaced |-> {}]

insert_paper(d) ==
    /\ paperSeq < MaxPaperId
    /\ LET r == InsertPaper(papers, paperSeq, d) IN
       /\ papers' = r.papers
       /\ paperSeq' = r.paperSeq
       /\ result' = [op |-> "insert_paper", ok |-> r.ok, arg |-> d,
                     replaced |-> r.replaced]
    /\ UNCHANGED <<indexVars, summaryVars, cycleVars, threadVars, catalogVars, schedulerVars>>

\* -------------------------------------------------------------- Term Index

\* One iteration of the loop of insert_key_terms on db = [key_terms,
\* termSeq, paper_terms, linked].
KeyTermStep(db, paper_id, term) ==
    LET t    == Lower(term)
        old  == {r \in db.key_terms : r.term = t}
        freq == (IF old = {} THEN 0 ELSE (CHOOSE r \in old : TRUE).frequency) + 1
        id   == db.termSeq + 1
    IN  [key_terms   |-> (db.key_terms \ old)
                           \cup {[id |-> id, term |-> t, frequency |-> freq]},
         termSeq     |-> id,
         paper_terms |-> db.paper_terms \cup {[paper_id |-> paper_id, term_id |-> id]},
         linked      |-> db.linked \cup {<<paper_id, t>>}]

RECURSIVE KeyTermsLoop(_, _, _)
KeyTermsLoop(db, paper_id, terms) ==
    IF terms = <<>> THEN db
    ELSE KeyTermsLoop(KeyTermStep(db, paper_id, Head(terms)), paper_id, Tail(terms))

insert_key_terms(paper_id, terms) ==
    /\ termSeq + Len(terms) <= MaxTermId
    /\ LET db == KeyTermsLoop([key_terms |-> key_terms, termSeq |-> termSeq,
                               paper_terms |-> paper_terms, linked |-> linked],
                              paper_id, terms)
       IN  /\ key_terms' = db.key_terms
           /\ termSeq' = db.termSeq
           /\ paper_terms' = db.paper_terms
           /\ linked' = db.linked
    /\ result' = [op |-> "insert_key_terms", paper_id |-> paper_id, terms |-> terms]
    /\ UNCHANGED <<storeVars, summaryVars, cycleVars, threadVars, catalogVars, schedulerVars>>

\* SELECT term, frequency FROM key_terms
get_all_key_terms == {[term |-> r.term, frequency |-> r.frequency] : r \in key_terms}

\* SELECT * FROM papers (the ORDER BY only orders the rows)
get_all_papers == papers

\* ORDER BY publish_date ASC
InDateOrder_Ascending(a, b) == a.publish_date <= b.publish_date

\* ORDER BY publish_date DESC: row a may come before row b.  NULL sorts
\* below every date; the order of rows with equal dates is not defined.
InDateOrder(a, b) == a.publish_date >= b.publish_date

\* Every list SELECT * FROM papers ORDER BY publish_date DESC can return
OrderedPapers(rows) ==
    {seq \in [1..Cardinality(rows) -> rows] :
        /\ \A i \in 1..Len(seq), j \in 1..Len(seq) : i # j => seq[i] # seq[j]
        /\ \A i \in 1..Len(seq), j \in 1..Len(seq) : i < j => InDateOrder(seq[i], seq[j])}

\* if limit: query += LIMIT limit   (no limit for None and for 0)
LimitRows(seq, limit) ==
    IF limit # 0 THEN SubSeq(seq, 1, IF limit <= Len(seq) THEN limit ELSE Len(seq))
    ELSE seq

\* get_all_papers(limit), one call
list_papers(limit) ==
    /\ \E seq \in OrderedPapers(papers) :
          result' = [op |-> "get_all_papers", limit |-> limit,
                     rows |-> LimitRows(seq, limit)]
    /\ UNCHANGED <<storeVars, indexVars, summaryVars, cycleVars, threadVars, catalogVars, schedulerVars>>

\* SELECT MAX(publish_date) FROM papers
LatestDate(rows) ==
    IF rows = {} THEN NullDate
    ELSE CHOOSE d \in {r.publish_date : r \in rows} :
            \A r \in rows : r.publish_date <= d

\* get_stats, one call
get_stats ==
    /\ result' = [op |-> "get_stats", total_papers |-> Cardinality(papers),
                  latest_date |-> LatestDate(papers),
                  last_update |-> settings.last_update_date]
    /\ UNCHANGED <<storeVars, indexVars, summaryVars, cycleVars, threadVars, catalogVars, schedulerVars>>

\* publish_date >= ? in place of publish_date > ?
AfterDate_Inclusive(publish_date, date) ==
    publish_date # NullDate /\ date # NullDate /\ publish_date >= date

\* publish_date > ? on 'YYYY-MM-DD' texts; a comparison with NULL is not true
AfterDate(publish_date, date) ==
    publish_date # NullDate /\ date # NullDate /\ publish_date > date

\* SELECT * FROM papers WHERE publish_date > ?
get_papers_after_date(date) ==
    {p \in papers : AfterDate(p.publish_date, date)}

\* FROM papers p JOIN paper_terms pt ON p.id = pt.paper_id JOIN key_terms kt
\* ON pt.term_id = kt.id WHERE kt.term IN (terms): the joined rows.  The
\* terms are bound as given, not lower-cased.
JoinedRows(terms) ==
    {j \in [p : papers, pt : paper_terms, kt : key_terms] :
        /\ j.pt.paper_id = j.p.id
        /\ j.pt.term_id = j.kt.id
        /\ \E i \in 1..Len(terms) : j.kt.term = terms[i]}

\* SELECT p.* over the joined rows: how many times each papers row comes out
SelectPapers(joined) ==
    [p \in {j.p : j \in joined} |-> Cardinality({j \in joined : j.p = p})]

\* the DISTINCT missing: every joined row yields a result row
SelectDistinct_All(selected) == selected

\* SELECT DISTINCT: equal result rows come out once
SelectDistinct(selected) == [p \in DOMAIN selected |-> 1]

\* the test 'if not terms' missing: the query runs with an empty IN list
papers_by_terms_rows_NoEmptyTest(terms) ==
    SelectDistinct(SelectPapers(JoinedRows(terms)))

\* The result list of get_papers_by_terms, as the number of times each papers
\* row is in it (the ORDER BY only orders the rows)
papers_by_terms_rows(terms) ==
    IF terms = <<>> THEN [p \in get_all_papers |-> 1]
    ELSE SelectDistinct(SelectPapers(JoinedRows(terms)))

\* get_papers_by_terms as the set of rows returned
get_papers_by_terms(terms) == DOMAIN papers_by_terms_rows(terms)

\* ------------------------------------------------- Summary Version Manager

\* SELECT * FROM research_summaries WHERE language = ? ORDER BY version DESC
\* LIMIT 1: the set holding that row, empty when there is none.
get_latest_summary(language) ==
    {research_summaries[i] : i \in
        {i \in 1..Len(research_summaries) :
            /\ research_summaries[i].language = language
            /\ \A j \in 1..Len(research_summaries) :
                  research_summaries[j].language = language
                     => research_summaries[j].version <= research_summaries[i].version}}

\* current_version = int(settings['summary_version']) + 1
\* the increment forgotten
NextVersion_NoIncrement(counter) == counter

NextVersion(counter) == counter + 1

\* INSERT OR REPLACE INTO research_summaries: a row in conflict on
\* UNIQUE(version, language) is deleted, the new row is added last.
SummaryRowsAfterInsert(rows, row) ==
    Append(SelectSeq(rows, LAMBDA r : ~(r.version = row.version /\ r.language = row.language)),
           row)

\* save_research_summary as a function of the tables: the new values of
\* research_summaries, settings and created, and the returned version.
save_research_summary(content, language, paper_count, latest_paper_date) ==
    LET current_version == NextVersion(settings.summary_version)
        row == [version |-> current_version, language |-> language,
                content |-> content, paper_count |-> paper_count,
                latest_paper_date |-> latest_paper_date]
    IN  [research_summaries |-> SummaryRowsAfterInsert(research_summaries, row),
         settings |-> [settings EXCEPT !.summary_version = current_version],
         created  |-> Append(created, [version |-> current_version, language |-> language]),
         version  |-> current_version]

\* max(p['publish_date'] for p in papers if p.get('publish_date'))
DatedPapers(ps) == {p \in ps : p.publish_date # NullDate}
MaxPublishDate(ps) ==
    CHOOSE d \in {p.publish_date : p \in DatedPapers(ps)} :
        \A p \in DatedPapers(ps) : p.publish_date <= d

\* The text returned by generate_comprehensive_summary /
\* generate_incremental_summary for the next summary to be saved
GeneratedText == Len(created) + 1

\* Which branch of api_generate_summary a request takes
\* the emptiness test of new_papers dropped
SummaryBranch_AlwaysIncremental(existing, force_regenerate, new_papers) ==
    IF existing # {} /\ ~force_regenerate THEN "incremental" ELSE "complete"

SummaryBranch(existing, force_regenerate, new_papers) ==
    IF existing # {} /\ ~force_regenerate
    THEN IF new_papers = {} THEN "no_update" ELSE "incremental"
    ELSE "complete"

api_generate_summary(language, force_regenerate, selected_terms) ==
    /\ LET sel == IF selected_terms # <<>> THEN get_papers_by_terms(selected_terms)
                  ELSE get_all_papers
           existing == get_latest_summary(language)
           ex == CHOOSE e \in existing : TRUE
           new_papers == IF existing = {} THEN {}
                         ELSE get_papers_after_date(ex.latest_paper_date)
           branch == SummaryBranch(existing, force_regenerate, new_papers)
           req == [op |-> "api_generate_summary"]
       IN  IF sel = {}
           THEN /\ result' = req @@ [status |-> 400, update_type |-> "error"]
                /\ UNCHANGED summaryVars
           ELSE IF branch = "no_update"
           THEN /\ result' = req @@ [status |-> 200, update_type |-> "no_update",
                                     summary |-> ex.content, version |-> ex.version]
                /\ UNCHANGED summaryVars
           ELSE IF DatedPapers(sel) = {}
           THEN \* max() of an empty sequence raises: the handler answers 500
                /\ result' = req @@ [status |-> 500, update_type |-> "error"]
                /\ UNCHANGED summaryVars
           ELSE LET content == GeneratedText
                    saved == save_research_summary(content, language,
                                  Cardinality(sel), MaxPublishDate(sel))
                IN  /\ settings.summary_version < MaxVersion
                    /\ research_summaries' = saved.research_summaries
                    /\ settings' = saved.settings
                    /\ created' = saved.created
                    /\ result' = req @@ [status |-> 200, update_type |-> branch,
                                         summary |-> content, version |-> saved.version]
    /\ UNCHANGED <<storeVars, indexVars, cycleVars, threadVars, catalogVars, schedulerVars>>

\* ---------------------------------------------- Specialized summary catalog

\* The text generate_specialized_summary returns for the next catalog entry
SpecializedText == specializedSeq + 1

\* paper_pmids = [p.get('pmid') for p in papers if p.get('pmid')]
PaperPmids(ps) == {p.pmid : p \in {q \in ps : q.pmid # None}}

\* a plain INTEGER PRIMARY KEY: the new rowid is one more than the largest
\* rowid in the table
NextSpecializedId_MaxRowid(rows, seq) ==
    IF rows = {} THEN 1
    ELSE (CHOOSE r \in rows : \A q \in rows : q.id <= r.id).id + 1

\* INTEGER PRIMARY KEY AUTOINCREMENT: one more than the largest id ever given
NextSpecializedId(rows, seq) == seq + 1

\* save_specialized_summary as a function of the table: name is NOT NULL (so
\* is content, which is always a generated text here), a failed INSERT is
\* caught and 0 is returned.
save_specialized_summary(rows, seq, name, language, focus_terms, content, ps) ==
    IF name = None
    THEN [specialized_summaries |-> rows, specializedSeq |-> seq, summary_id |-> 0,
          saved |-> {}]
    ELSE LET row == [id |-> NextSpecializedId(rows, seq), name |-> name,
                     language |-> language, focus_terms |-> focus_terms,
                     content |-> content, paper_count |-> Cardinality(ps),
                     paper_pmids |-> PaperPmids(ps)]
         IN  [specialized_summaries |-> rows \cup {row},
              specializedSeq |-> IF row.id > seq THEN row.id ELSE seq,
              summary_id |-> row.id, saved |-> {row}]

\* SELECT ... FROM specialized_summaries WHERE id = ?: the set holding that
\* row, empty when there is none
get_specialized_summary(summary_id) ==
    {r \in specialized_summaries : r.id = summary_id}

\* DELETE FROM specialized_summaries WHERE id = ?; returns rowcount > 0
delete_specialized_summary(summary_id) ==
    /\ specialized_summaries' = specialized_summaries \ get_specialized_summary(summary_id)
    /\ catalog_history' =
          [catalog_history EXCEPT !.deleted =
              @ \cup ({summary_id} \cap {h.id : h \in catalog_history.saved})]
    /\ result' = [op |-> "delete_specialized_summary", summary_id |-> summary_id,
                  success |-> get_specialized_summary(summary_id) # {}]
    /\ UNCHANGED <<specializedSeq, storeVars, indexVars, summaryVars, cycleVars, threadVars, schedulerVars>>

\* the test 'if not papers' missing
SpecializedRequestError_NoPapersTest(selected_terms, ps) ==
    IF selected_terms = <<>> THEN "At least one key term must be selected"
    ELSE "none"

\* the test 'if not selected_terms' missing
SpecializedRequestError_NoTermsTest(selected_terms, ps) ==
    IF ps = {} THEN "No papers found containing the selected terms"
    ELSE "none"

\* The 400 answers of api_generate_specialized_summary
SpecializedRequestError(selected_terms, ps) ==
    IF selected_terms = <<>> THEN "At least one key term must be selected"
    ELSE IF ps = {} THEN "No papers found containing the selected terms"
    ELSE "none"

api_generate_specialized_summary(language, selected_terms, summary_name) ==
    /\ LET ps == get_papers_by_terms(selected_terms)
           req == [op |-> "api_generate_specialized_summary"]
       IN  IF SpecializedRequestError(selected_terms, ps) # "none"
           THEN /\ result' = req @@ [status |-> 400]
                /\ UNCHANGED catalogVars
           ELSE LET summary == SpecializedText
                    saved == save_specialized_summary(specialized_summaries,
                                 specializedSeq, summary_name, language,
                                 selected_terms, summary, ps)
                IN  /\ specializedSeq < MaxSpecializedId
                    /\ specialized_summaries' = saved.specialized_summaries
                    /\ specializedSeq' = saved.specializedSeq
                    /\ catalog_history' =
                          [catalog_history EXCEPT !.saved = @ \cup saved.saved]
                    /\ result' = req @@ [status |-> 200, summary |-> summary,
                                         total_papers |-> Cardinality(ps),
                                         summary_id |-> saved.summary_id]
    /\ UNCHANGED <<storeVars, indexVars, summaryVars, cycleVars, threadVars, schedulerVars>>

\* ------------------------------------------------------ Ingestion cycles

\* What the search service holds for a query: records as the fetcher parses
\* them (no key_terms; pmid and title may be missing)
FetchedRecords ==
    [pmid : Pmids \cup {None}, title : {"A", None}, publish_date : {1}, key_terms : {<<>>}]

\* The result set of one search: a list in which no pmid comes twice
Batches ==
    {b \in UNION {[1..n -> FetchedRecords] : n \in 0..MaxBatch} :
        \A i \in 1..Len(b), j \in 1..Len(b) :
            (i # j /\ b[i].pmid # None) => b[i].pmid # b[j].pmid}

\* get_paper_count: esearch answers the count, or 0 when the request failed
get_paper_count(search_ok, batch) == IF search_ok THEN Len(batch) ELSE 0

Min(a, b) == IF a <= b THEN a ELSE b

\* batch_size = 100 and the limit of 1000 papers of scrape_search_results,
\* scaled down
batch_size == 2
fetch_limit == 3

\* What an element of PubDate can be: not there, there without text, or
\* there with one of these texts
Absent == "absent"
Empty  == "empty"
YearTexts  == {"2024"}
MonthTexts == {"Mar", "3", "Spring"}
DayTexts   == {"7", "1st"}

\* The PubDate parts of an article
PubDates ==
    [pub_date : BOOLEAN, year : {Absent, Empty} \cup YearTexts,
     month : {Absent, Empty} \cup MonthTexts, day : {Absent, Empty} \cup DayTexts]

\* elem.text: None for an element without text
TextOf(elem) == IF elem = Empty THEN None ELSE elem

\* str.isdigit() and str.zfill(2) on the texts of the model
IsDigit(text) == text \in {"3", "7", "01"}
Zfill2(text) ==
    CASE text = "3" -> "03"
      [] text = "7" -> "07"
      [] OTHER      -> text

\* month_mapping: 'Jan' -> '01', ..., 'Dec' -> '12'
month_mapping(text) == IF text = "Mar" THEN "03" ELSE text

\* paper['publish_date'] = "2025-01-01"
DefaultPublishDate == <<"2025", "01", "01">>

\* The publish_date _extract_paper_from_xml builds, as <<year, month, day>>
\* for 'year-month-day', or "raised" when building it raised outside the
\* inner try (the article then yields no record).  A None text is formatted
\* as 'None'; None.isdigit() raises; None.zfill(2) raises inside the inner
\* try, which answers year-01-01.
ExtractPublishDate(e) ==
    IF ~e.pub_date \/ e.year = Absent THEN DefaultPublishDate
    ELSE LET year_text  == TextOf(e.year)
             month_text == IF e.month = Absent THEN "01" ELSE TextOf(e.month)
             day_text   == IF e.day = Absent THEN "01" ELSE TextOf(e.day)
         IN  IF month_text = None THEN "raised"
             ELSE LET month == IF month_mapping(month_text) # month_text
                               THEN month_mapping(month_text)
                               ELSE IF ~IsDigit(month_text) THEN "01" ELSE month_text
                  IN  IF day_text = None THEN <<year_text, "01", "01">>
                      ELSE <<year_text, Zfill2(month), Zfill2(day_text)>>

\* _extract_paper_from_xml on the PubDate of one article
extract_publish_date(e) ==
    /\ result' = [op |-> "extract_publish_date", entry |-> e,
                  emitted |-> ExtractPublishDate(e) # "raised",
                  publish_date |-> ExtractPublishDate(e)]
    /\ UNCHANGED <<storeVars, indexVars, summaryVars, cycleVars, threadVars, catalogVars, schedulerVars>>

\* The articles of a response in which every article can be read
Articles(batch) == [i \in 1..Len(batch) |-> [paper |-> batch[i], raises |-> FALSE]]

\* a record is made of an article even when reading it raised
extract_paper_from_xml_Placeholder(article) == <<article.paper>>

\* _extract_paper_from_xml: the record of the article, or None (here the
\* empty list) when reading the article raised
extract_paper_from_xml(article) ==
    IF article.raises THEN <<>> ELSE <<article.paper>>

\* for article in articles: paper_data = ...; if paper_data: papers.append(paper_data)
RECURSIVE ParseArticles(_)
ParseArticles(articles) ==
    IF articles = <<>> THEN <<>>
    ELSE extract_paper_from_xml(Head(articles)) \o ParseArticles(Tail(articles))

\* the failure of a page request leaves efetch as an exception
EfetchFailure_Raise == [raised |-> TRUE, papers |-> <<>>]

\* except Exception: return []
EfetchFailure == [raised |-> FALSE, papers |-> <<>>]

\* efetch with WebEnv / query_key: the records read from the articles of the
\* stored result set at offsets retstart .. retstart + retmax - 1, or the
\* outcome of the except clause when the request failed or its response is
\* not an XML document
efetch(result_set, retstart, retmax, ok) ==
    IF ok
    THEN [raised |-> FALSE,
          papers |-> ParseArticles(SubSeq(result_set, retstart + 1,
                                          Min(retstart + retmax, Len(result_set))))]
    ELSE EfetchFailure

\* the offsets of two successive pages overlap by one record
NextStart_Overlapping(start) == start + batch_size - 1

\* range(0, total_papers, batch_size): the offset after start
NextStart(start) == start + batch_size

\* every page request asks for batch_size records
batch_size_actual_Unclipped(start, total_papers) == batch_size

\* batch_size_actual = min(batch_size, total_papers - start)
batch_size_actual(start, total_papers) == Min(batch_size, total_papers - start)

\* One efetch call of scrape_search_results and all_papers.extend(papers):
\* run is the list of requests made so far with their answers, the papers
\* aggregated so far, and whether an exception left the loop
FetchBatch(run, result_set, retstart, retmax, ok) ==
    LET page == efetch(result_set, retstart, retmax, ok) IN
    [requests   |-> Append(run.requests, [retstart |-> retstart, retmax |-> retmax,
                                          papers |-> page.papers]),
     all_papers |-> run.all_papers \o page.papers,
     raised     |-> page.raised]

\* for start in range(0, total_papers, batch_size): all_papers.extend(efetch(...))
RECURSIVE FetchBatches(_, _, _, _, _)
FetchBatches(run, result_set, start, total_papers, page_ok) ==
    IF run.raised \/ start >= total_papers THEN run
    ELSE FetchBatches(FetchBatch(run, result_set, start,
                                 batch_size_actual(start, total_papers), page_ok[start]),
                      result_set, NextStart(start), total_papers, page_ok)

NoRequest == [requests |-> <<>>, all_papers |-> <<>>, raised |-> FALSE]

\* The body of scrape_search_results on the result set the service holds for
\* the query: a failed esearch counts 0 and nothing is requested; with a
\* WebEnv the pages are fetched by offset, page_ok[start] telling whether the
\* request for the page at start succeeds; without one the first ids are
\* fetched in one request.
ScrapeBody(search_ok, has_webenv, page_ok, result_set) ==
    IF get_paper_count(search_ok, result_set) = 0 THEN NoRequest
    ELSE IF has_webenv
    THEN FetchBatches(NoRequest, result_set, 0, Min(Len(result_set), fetch_limit), page_ok)
    ELSE FetchBatch(NoRequest, result_set, 0, batch_size, page_ok[0])

\* scrape_search_results: the body, and [] for an exception raised in it
ScrapeRun(search_ok, has_webenv, page_ok, result_set) ==
    LET run == ScrapeBody(search_ok, has_webenv, page_ok, result_set) IN
    IF run.raised THEN [run EXCEPT !.all_papers = <<>>, !.raised = FALSE] ELSE run

\* The list scrape_search_results returns
ScrapeSearchResults(search_ok, has_webenv, page_ok, result_set) ==
    ScrapeRun(search_ok, has_webenv, page_ok, result_set).all_papers

\* scrape_search_results when the search answers with a WebEnv, every page
\* request has the same fate and every article can be read
scrape_search_results(search_ok, page_ok, batch) ==
    ScrapeSearchResults(search_ok, TRUE, [start \in 0..(fetch_limit - 1) |-> page_ok],
                        Articles(batch))

FetchFailed(search_ok, page_ok, batch) ==
    ~search_ok \/ (Len(batch) > 0 /\ ~page_ok)

\* SELECT value FROM settings WHERE key = 'last_update_date'
get_last_update_date == settings.last_update_date

\* SELECT value FROM system_metadata WHERE key = 'last_update': no row at first
get_last_update == system_metadata.last_update

\* datetime.now() - timedelta(days=7)
WeekBefore(today) == today - 7

\* SELECT 1 FROM papers WHERE pmid = ?
paper_exists(rows, pmid) == \E r \in rows : pmid # None /\ r.pmid = pmid

\* the failure of the analysis call leaves analyze_paper as an exception
AnalysisFailure_Raise == [raised |-> TRUE, main_findings |-> None]

\* except Exception: return "Analysis failed"  (without a client:
\* "AI analysis unavailable")
AnalysisFailure == [raised |-> FALSE, main_findings |-> "Analysis failed"]

\* analyze_paper: the findings the service answers, or the outcome of a
\* failed call
analyze_paper(ok) ==
    IF ok THEN [raised |-> FALSE, main_findings |-> "findings"] ELSE AnalysisFailure

\* paper_data['main_findings'] = analysis; success = insert_paper(paper_data)
Handed(paper_data, a, ok) ==
    [pmid |-> paper_data.pmid, main_findings |-> a.main_findings, success |-> ok]

\* The state of a cycle's loop at its start
LoopStart(rows, seq) ==
    [papers |-> rows, paperSeq |-> seq, processed_count |-> 0, store_failed |-> FALSE,
     aborted |-> FALSE, timeline |-> <<>>, analysed |-> <<>>, upserted |-> <<>>,
     findings |-> <<>>]

\* The loop of update_research over the fetched papers; terms[i] is what
\* extract_key_terms returns for the i-th paper and analysis[i] whether its
\* analysis call succeeds.  analysed lists the pmids handed to
\* analyze_paper, upserted those handed to insert_paper, findings what was
\* handed to insert_paper and what it returned.  An exception in the body is
\* caught per paper (continue).
RECURSIVE UpdateResearchLoop(_, _, _, _)
UpdateResearchLoop(db, batch, terms, analysis) ==
    IF batch = <<>> THEN db
    ELSE LET a == analyze_paper(Head(analysis))
             paper_data == [Head(batch) EXCEPT !.key_terms = Head(terms)]
             r == InsertPaper(db.papers, db.paperSeq, paper_data)
         IN  IF a.raised
             THEN UpdateResearchLoop(
                     [db EXCEPT !.analysed = Append(@, Head(batch).pmid)],
                     Tail(batch), Tail(terms), Tail(analysis))
             ELSE UpdateResearchLoop(
                     [papers |-> r.papers, paperSeq |-> r.paperSeq,
                      processed_count |-> db.processed_count + (IF r.ok THEN 1 ELSE 0),
                      store_failed |-> db.store_failed \/ ~r.ok,
                      aborted |-> FALSE, timeline |-> <<>>,
                      analysed |-> Append(db.analysed, Head(batch).pmid),
                      upserted |-> Append(db.upserted, Head(batch).pmid),
                      findings |-> Append(db.findings, Handed(paper_data, a, r.ok))],
                     Tail(batch), Tail(terms), Tail(analysis))

update_research(is_initial, count_ok, search_ok, page_ok, batch, terms, analysis, current_date) ==
    /\ paperSeq + Len(batch) <= MaxPaperId
    /\ LET total_papers == get_paper_count(count_ok, batch)
           fetched == scrape_search_results(search_ok, page_ok, batch)
           db == UpdateResearchLoop(LoopStart(papers, paperSeq), fetched,
                                    SubSeq(terms, 1, Len(fetched)),
                                    SubSeq(analysis, 1, Len(fetched)))
       IN  IF ~is_initial /\ total_papers = 0
           THEN \* "No new papers found since last update."
                /\ UNCHANGED <<storeVars, settings>>
                /\ result' = [op |-> "update_research", returned |-> "no_new_papers",
                              fetch_failed |-> ~count_ok, store_failed |-> FALSE,
                              after_date |-> get_last_update_date,
                              processed_count |-> 0, fetched |-> <<>>,
                              analysed |-> <<>>, upserted |-> <<>>,
                              findings |-> <<>>, analysis |-> <<>>]
           ELSE /\ papers' = db.papers
                /\ paperSeq' = db.paperSeq
                /\ settings' = [settings EXCEPT !.last_update_date = current_date]
                /\ result' = [op |-> "update_research", returned |-> "processed",
                              fetch_failed |-> ~count_ok \/ FetchFailed(search_ok, page_ok, batch),
                              store_failed |-> db.store_failed,
                              after_date |-> IF is_initial THEN NullDate
                                             ELSE get_last_update_date,
                              processed_count |-> db.processed_count,
                              fetched |-> [i \in 1..Len(fetched) |-> fetched[i].pmid],
                              analysed |-> db.analysed, upserted |-> db.upserted,
                              findings |-> db.findings,
                              analysis |-> SubSeq(analysis, 1, Len(fetched))]
    /\ UNCHANGED <<indexVars, research_summaries, created, cycleVars, threadVars, catalogVars, schedulerVars>>

\* The loop of weekly_update: records already stored are skipped, each
\* stored record adds a timeline entry.  Nothing catches an exception inside
\* the loop: it ends the loop (aborted) and is caught at the end of
\* weekly_update.
RECURSIVE WeeklyUpdateLoop(_, _, _)
WeeklyUpdateLoop(db, batch, analysis) ==
    IF batch = <<>> THEN db
    ELSE IF paper_exists(db.papers, Head(batch).pmid)
    THEN WeeklyUpdateLoop(db, Tail(batch), Tail(analysis))
    ELSE LET a == analyze_paper(Head(analysis))
             paper_data == Head(batch)
             r == InsertPaper(db.papers, db.paperSeq, paper_data)
         IN  IF a.raised
             THEN [db EXCEPT !.aborted = TRUE, !.analysed = Append(@, Head(batch).pmid)]
             ELSE WeeklyUpdateLoop(
                     [papers |-> r.papers, paperSeq |-> r.paperSeq,
                      processed_count |-> db.processed_count + (IF r.ok THEN 1 ELSE 0),
                      store_failed |-> db.store_failed \/ ~r.ok,
                      aborted |-> FALSE,
                      timeline |-> IF r.ok THEN Append(db.timeline, Head(batch).pmid)
                                   ELSE db.timeline,
                      analysed |-> Append(db.analysed, Head(batch).pmid),
                      upserted |-> Append(db.upserted, Head(batch).pmid),
                      findings |-> Append(db.findings, Handed(paper_data, a, r.ok))],
                     Tail(batch), Tail(analysis))

\* weekly_update; _regenerate_summary generates a text and saves nothing,
\* and swallows its own failure (summary_ok).
WeeklyUpdateRun(search_ok, page_ok, summary_ok, batch, analysis, today) ==
    /\ paperSeq + Len(batch) <= MaxPaperId
    /\ LET fetched == scrape_search_results(search_ok, page_ok, batch)
           db == WeeklyUpdateLoop(LoopStart(papers, paperSeq), fetched,
                                  SubSeq(analysis, 1, Len(fetched)))
       IN  /\ papers' = db.papers
           /\ paperSeq' = db.paperSeq
           /\ IF db.aborted
              THEN UNCHANGED <<timeline_entries, system_metadata>>
              ELSE /\ timeline_entries' = timeline_entries \o
                         [i \in 1..Len(db.timeline) |->
                             [pmid |-> db.timeline[i], week_of |-> today]]
                   /\ system_metadata' = [system_metadata EXCEPT !.last_update = today]
           /\ result' = [op |-> "weekly_update",
                         returned |-> IF db.aborted THEN "failed" ELSE "processed",
                         fetch_failed |-> FetchFailed(search_ok, page_ok, batch),
                         store_failed |-> db.store_failed,
                         summary_failed |-> db.processed_count > 0 /\ ~summary_ok,
                         after_date |-> IF get_last_update = NullDate
                                        THEN WeekBefore(today) ELSE get_last_update,
                         processed_count |-> db.processed_count,
                         fetched |-> [i \in 1..Len(fetched) |-> fetched[i].pmid],
                         analysed |-> db.analysed, upserted |-> db.upserted,
                         findings |-> db.findings,
                         analysis |-> SubSeq(analysis, 1, Len(fetched))]
    /\ UNCHANGED <<indexVars, summaryVars, threadVars, catalogVars>>

\* weekly_update called outside the scheduler loop (force_update)
weekly_update(search_ok, page_ok, summary_ok, batch, analysis, today) ==
    /\ WeeklyUpdateRun(search_ok, page_ok, summary_ok, batch, analysis, today)
    /\ UNCHANGED schedulerVars

\* ------------------------------------------------------- Weekly scheduler
\* The schedule module as the program uses it: every().monday.at().do(f)
\* registers one more job, run_pending() runs the jobs that are due, a job
\* that ran is due again a week later, clear() removes every job.

\* The threads that have been started and have not left _run_scheduler
AliveLoops == {k \in Loops : loops[k].pc \in {"test", "pending", "sleeping"}}

\* if self.running: return
\* the test missing
AlreadyRunning_NoTest == FALSE

AlreadyRunning == running

\* start_scheduler: the new job and the new thread get the number k of the
\* first thread not started yet
start_scheduler ==
    IF AlreadyRunning
    THEN /\ result' = [op |-> "start_scheduler", started |-> FALSE]
         /\ UNCHANGED <<schedulerVars, storeVars, indexVars, summaryVars, cycleVars,
                        threadVars, catalogVars>>
    ELSE \E k \in Loops :
            /\ loops[k].pc = "unborn"
            /\ \A j \in Loops : j < k => loops[j].pc # "unborn"
            /\ running' = TRUE
            /\ jobs' = jobs \cup {[id |-> k, due |-> FALSE]}
            /\ loops' = [loops EXCEPT ![k] = [pc |-> "test", todo |-> {}]]
            /\ result' = [op |-> "start_scheduler", started |-> TRUE]
            /\ UNCHANGED <<storeVars, indexVars, summaryVars, cycleVars, threadVars,
                           catalogVars>>

\* stop_scheduler: self.running = False; schedule.clear()
stop_scheduler ==
    /\ running' = FALSE
    /\ jobs' = {}
    /\ result' = [op |-> "stop_scheduler"]
    /\ UNCHANGED <<loops, storeVars, indexVars, summaryVars, cycleVars, threadVars,
                   catalogVars>>

\* Monday 09:00 comes: every registered job is due
monday ==
    /\ \E j \in jobs : ~j.due
    /\ jobs' = {[id |-> j.id, due |-> TRUE] : j \in jobs}
    /\ UNCHANGED <<running, loops, result, storeVars, indexVars, summaryVars, cycleVars,
                   threadVars, catalogVars>>

\* while self.running: ... schedule.run_pending() picks the jobs that are due
loop_test(k) ==
    /\ loops[k].pc = "test"
    /\ loops' = [loops EXCEPT ![k] =
                    IF running
                    THEN [pc |-> "pending", todo |-> {j.id : j \in {i \in jobs : i.due}}]
                    ELSE [pc |-> "ended", todo |-> {}]]
    /\ UNCHANGED <<running, jobs, result, storeVars, indexVars, summaryVars, cycleVars,
                   threadVars, catalogVars>>

\* run_pending runs one of the jobs it picked: weekly_update, after which
\* the job is due a week later
loop_run_job(k, batch, analysis, today) ==
    /\ loops[k].pc = "pending"
    /\ \E id \in loops[k].todo :
          /\ WeeklyUpdateRun(TRUE, TRUE, TRUE, batch, analysis, today)
          /\ jobs' = {[id |-> j.id, due |-> j.due /\ j.id # id] : j \in jobs}
          /\ loops' = [loops EXCEPT ![k].todo = @ \ {id}]
    /\ UNCHANGED running

\* run_pending has returned: time.sleep(3600)
loop_sleep(k) ==
    /\ loops[k].pc = "pending"
    /\ loops[k].todo = {}
    /\ loops' = [loops EXCEPT ![k].pc = "sleeping"]
    /\ UNCHANGED <<running, jobs, result, storeVars, indexVars, summaryVars, cycleVars,
                   threadVars, catalogVars>>

\* the sleep is over
loop_wake(k) ==
    /\ loops[k].pc = "sleeping"
    /\ loops' = [loops EXCEPT ![k].pc = "test"]
    /\ UNCHANGED <<running, jobs, result, storeVars, indexVars, summaryVars, cycleVars,
                   threadVars, catalogVars>>

\* ------------------------------------- save_research_summary, thread by thread
\* The calls of save_research_summary begun so far; the content of the n-th
\* call is the token n
CallsBegun == Len(created) + Cardinality({w \in Savers : savers[w].pc = "read"})

\* SELECT value FROM settings WHERE key = 'summary_version': the read is made
\* before the connection has opened its write transaction, so other threads
\* can read and commit between it and the INSERT.
save_read(w, language, paper_count, latest_paper_date) ==
    /\ savers[w].pc = "idle"
    /\ CallsBegun < MaxSaves
    /\ settings.summary_version < MaxVersion
    /\ savers' = [savers EXCEPT ![w] =
                    [pc |-> "read",
                     row |-> [version |-> NextVersion(settings.summary_version),
                              language |-> language, content |-> CallsBegun + 1,
                              paper_count |-> paper_count,
                              latest_paper_date |-> latest_paper_date]]]
    /\ UNCHANGED <<callers, wire, result, storeVars, indexVars, summaryVars, cycleVars, catalogVars, schedulerVars>>

\* INSERT OR REPLACE INTO research_summaries, UPDATE settings, conn.commit():
\* one transaction under the database's write lock
save_write(w) ==
    /\ savers[w].pc = "read"
    /\ research_summaries' = SummaryRowsAfterInsert(research_summaries, savers[w].row)
    /\ settings' = [settings EXCEPT !.summary_version = savers[w].row.version]
    /\ created' = Append(created, savers[w].row)
    /\ savers' = [savers EXCEPT ![w] = [pc |-> "idle"]]
    /\ result' = [op |-> "save_research_summary", version |-> savers[w].row.version]
    /\ UNCHANGED <<callers, wire, storeVars, indexVars, cycleVars, catalogVars, schedulerVars>>

\* ------------------------------------------- Requests to the search service
\* esearch and efetch, per calling thread: time.sleep(self.request_delay),
\* then session.get(...), then the response.  No lock and no shared record of
\* the last request: each PubMedScraper only sleeps before its own request.

\* time.sleep(self.request_delay) begins
begin_request(c) ==
    /\ callers[c].pc = "idle"
    /\ callers' = [callers EXCEPT ![c] = [pc |-> "sleeping", wait |-> request_delay]]
    /\ UNCHANGED <<wire, savers, result, storeVars, indexVars, summaryVars, cycleVars, catalogVars, schedulerVars>>

\* the sleep is over: self.session.get(url, params=params) sends the request
send_request(c) ==
    /\ callers[c].pc = "sleeping"
    /\ callers[c].wait = 0
    /\ wire.sent < MaxRequests
    /\ callers' = [callers EXCEPT ![c] = [pc |-> "in_flight", wait |-> 0]]
    /\ wire' = [since_last |-> 0, sent |-> wire.sent + 1]
    /\ result' = [op |-> "send_request", caller |-> c]
    /\ UNCHANGED <<savers, storeVars, indexVars, summaryVars, cycleVars, catalogVars, schedulerVars>>

\* the response (or the exception) arrives; the method returns
receive_response(c) ==
    /\ callers[c].pc = "in_flight"
    /\ callers' = [callers EXCEPT ![c] = [pc |-> "idle", wait |-> 0]]
    /\ UNCHANGED <<wire, savers, result, storeVars, indexVars, summaryVars, cycleVars, catalogVars, schedulerVars>>

\* One clock tick passes for every thread and for the service; the time since
\* the last request is only told apart up to request_delay
tick ==
    /\ callers' = [c \in Callers |->
                      IF callers[c].pc = "sleeping" /\ callers[c].wait > 0
                      THEN [callers[c] EXCEPT !.wait = @ - 1] ELSE callers[c]]
    /\ wire' = [wire EXCEPT !.since_last = Min(@ + 1, request_delay)]
    /\ UNCHANGED <<savers, result, storeVars, indexVars, summaryVars, cycleVars, catalogVars, schedulerVars>>

\* ------------------------------------------------------------------- specs
StoreNext ==
    \E d \in PaperData : insert_paper(d)

StoreSpec == Init /\ [][StoreNext]_vars

\* Records of the listing runs and the limits asked for (0: none)
ListPaperData ==
    [pmid : Pmids \cup {"p3"}, title : {"A", None},
     publish_date : Dates \cup {NullDate}, key_terms : {<<>>}]

Limits == 0..2

ListNext ==
    \/ \E d \in ListPaperData : insert_paper(d)
    \/ \E limit \in Limits : list_papers(limit)
    \/ get_stats

ListSpec == Init /\ [][ListNext]_vars

IndexNext ==
    \/ \E d \in IndexPaperData : insert_paper(d)
    \/ \E p \in papers, ts \in TermLists : insert_key_terms(p.id, ts)

IndexSpec == Init /\ [][IndexNext]_vars

\* Records and requests of the summary runs
TermSelections == {<<>>, <<"tp53">>}

SummaryPaperData ==
    [pmid : {"p1"}, title : {"A"}, publish_date : Dates \cup {NullDate}, key_terms : {<<>>}]
       \cup [pmid : {"p2"}, title : {"A"}, publish_date : {2}, key_terms : {<<>>}]

SummaryNext ==
    \/ \E d \in SummaryPaperData : insert_paper(d)
    \/ \E p \in papers :
          termSeq < MaxSummaryTermId /\ insert_key_terms(p.id, <<"tp53">>)
    \/ \E l \in Languages, f \in BOOLEAN, ts \in TermSelections :
          api_generate_summary(l, f, ts)

SummarySpec == Init /\ [][SummaryNext]_vars

\* every analysis call of the cycle succeeds
Analysed(batch) == [i \in 1..Len(batch) |-> TRUE]

\* The result sets of the cycle runs: every record has a title
CycleBatches == {b \in Batches : \A i \in 1..Len(b) : b[i].title # None}

CycleNext ==
    \/ \E i \in BOOLEAN, c \in BOOLEAN, so \in BOOLEAN, po \in BOOLEAN, b \in CycleBatches, d \in Dates :
          \E ts \in [1..Len(b) -> {<<>>, <<"TP53">>}] :
             update_research(i, c, so, po, b, ts, Analysed(b), d)
    \/ \E so \in BOOLEAN, po \in BOOLEAN, su \in BOOLEAN, b \in CycleBatches, d \in Dates :
          weekly_update(so, po, su, b, Analysed(b), d)

CycleSpec == Init /\ [][CycleNext]_vars

\* The batches of the runs with failing analysis calls: records with a
\* title, told apart by their pmid
AnalysisBatches ==
    {b \in UNION {[1..n -> [pmid : Pmids, title : {"A"},
                           publish_date : {1}, key_terms : {<<>>}]] : n \in 0..2} :
        \A i \in 1..Len(b), j \in 1..Len(b) : i # j => b[i].pmid # b[j].pmid}

AnalysisNext ==
    \/ \E i \in BOOLEAN, b \in AnalysisBatches :
          \E ts \in [1..Len(b) -> {<<>>, <<"TP53">>}], an \in [1..Len(b) -> BOOLEAN] :
             update_research(i, TRUE, TRUE, TRUE, b, ts, an, 2)
    \/ \E b \in AnalysisBatches :
          \E an \in [1..Len(b) -> BOOLEAN] :
             weekly_update(TRUE, TRUE, TRUE, b, an, 2)

AnalysisSpec == Init /\ [][AnalysisNext]_vars

\* The result sets of the paging runs: records told apart by their pmid
PageRecords ==
    [pmid : {"p1", "p2", "p3", "p4"}, title : {"A"}, publish_date : {1},
     key_terms : {<<>>}]

\* What the service can hold for a query: every list of records in which no
\* pmid comes twice
ResultSets ==
    {b \in UNION {[1..n -> PageRecords] : n \in 0..Cardinality(PageRecords)} :
        \A i \in 1..Len(b), j \in 1..Len(b) : i # j => b[i].pmid # b[j].pmid}

\* One call of scrape_search_results
scrape(search_ok, has_webenv, page_ok, result_set) ==
    /\ result' = [op |-> "scrape_search_results",
                  result_set |-> result_set,
                  all_papers |-> ScrapeSearchResults(search_ok, has_webenv,
                                                     page_ok, Articles(result_set))]
    /\ UNCHANGED <<storeVars, indexVars, summaryVars, cycleVars, threadVars, catalogVars, schedulerVars>>

FetchNext ==
    \E so \in BOOLEAN, we \in BOOLEAN, rs \in ResultSets :
        \E po \in [0..(fetch_limit - 1) -> BOOLEAN] : scrape(so, we, po, rs)

FetchSpec == Init /\ [][FetchNext]_vars

\* The articles of the paging runs: article i of a result set carries pmid
\* p<i>, and reading it raises or not
PagePmids == <<"p1", "p2", "p3", "p4">>

RawResultSets ==
    {rs \in UNION {[1..n -> [paper : PageRecords, raises : BOOLEAN]] : n \in 0..Len(PagePmids)} :
        \A i \in 1..Len(rs) : rs[i].paper.pmid = PagePmids[i]}

\* One call of scrape_search_results, with the requests it made
scrape_pages(search_ok, has_webenv, page_ok, result_set) ==
    LET run == ScrapeRun(search_ok, has_webenv, page_ok, result_set) IN
    /\ result' = [op |-> "scrape_search_results",
                  search_ok |-> search_ok, has_webenv |-> has_webenv,
                  page_ok |-> page_ok, result_set |-> result_set,
                  requests |-> run.requests, all_papers |-> run.all_papers,
                  raised |-> run.raised]
    /\ UNCHANGED <<storeVars, indexVars, summaryVars, cycleVars, threadVars, catalogVars, schedulerVars>>

\* One call of get_paper_count
count_papers(search_ok, result_set) ==
    /\ result' = [op |-> "get_paper_count", search_ok |-> search_ok,
                  result_set |-> result_set,
                  count |-> get_paper_count(search_ok, result_set), raised |-> FALSE]
    /\ UNCHANGED <<storeVars, indexVars, summaryVars, cycleVars, threadVars, catalogVars, schedulerVars>>

PageNext ==
    \/ \E so \in BOOLEAN, we \in BOOLEAN, rs \in RawResultSets :
          \E po \in [0..(fetch_limit - 1) -> BOOLEAN] : scrape_pages(so, we, po, rs)
    \/ \E so \in BOOLEAN, rs \in RawResultSets : count_papers(so, rs)

PageSpec == Init /\ [][PageNext]_vars

DateNext == \E e \in PubDates : extract_publish_date(e)

DateSpec == Init /\ [][DateNext]_vars

\* The result sets of the scheduled runs
SchedulerBatches ==
    {<<>>, <<[pmid |-> "p1", title |-> "A", publish_date |-> 1, key_terms |-> <<>>]>>}

SchedulerNext ==
    \/ start_scheduler
    \/ stop_scheduler
    \/ monday
    \/ \E k \in Loops : loop_test(k)
    \/ \E k \in Loops, b \in SchedulerBatches : loop_run_job(k, b, Analysed(b), 2)
    \/ \E k \in Loops : loop_sleep(k)
    \/ \E k \in Loops : loop_wake(k)

SchedulerSpec == Init /\ [][SchedulerNext]_vars

RateNext ==
    \/ \E c \in Callers : begin_request(c)
    \/ \E c \in Callers : send_request(c)
    \/ \E c \in Callers : receive_response(c)
    \/ tick

RateSpec == Init /\ [][RateNext]_vars

SaveNext ==
    \/ \E w \in Savers, l \in Languages, n \in 1..2, d \in Dates : save_read(w, l, n, d)
    \/ \E w \in Savers : save_write(w)

SaveSpec == Init /\ [][SaveNext]_vars

\* Records and requests of the catalog runs
CatalogPaperData ==
    [pmid : {"p1"}, title : {"A"}, publish_date : {1}, key_terms : {<<>>}]

CatalogNext ==
    \/ \E d \in CatalogPaperData : insert_paper(d)
    \/ \E p \in papers :
          termSeq < MaxSummaryTermId /\ insert_key_terms(p.id, <<"tp53">>)
    \/ \E f \in BOOLEAN, ts \in TermSelections : api_generate_summary("en", f, ts)
    \/ \E l \in Languages, ts \in TermSelections, n \in {"N", None} :
          api_generate_specialized_summary(l, ts, n)
    \/ \E id \in 1..MaxSpecializedId : delete_specialized_summary(id)

CatalogSpec == Init /\ [][CatalogNext]_vars

\* ================================================================== claims

\* --- C1 (StoreSpec) -------------------------------------------------------
\* C1: no two rows of papers share a pmid, and after a successful
\* insert_paper the store holds exactly one row for that pmid, carrying every
\* field value of that call (last write wins).
C1_UniquePmidLastWriteWins ==
    /\ \A r1 \in papers, r2 \in papers : r1.pmid = r2.pmid => r1 = r2
    /\ (result.op = "insert_paper" /\ result.ok) =>
          /\ Cardinality({r \in papers : r.pmid = result.arg.pmid}) = 1
          /\ \A r \in papers :
                r.pmid = result.arg.pmid =>
                   /\ r.title = result.arg.title
                   /\ r.publish_date = result.arg.publish_date
                   /\ r.key_terms = result.arg.key_terms

\* a second successful insert_paper for a pmid stored with other values
C1_Witness ==
    /\ result.op = "insert_paper"
    /\ result.ok
    /\ \E r \in result.replaced :
          r.title # result.arg.title /\ r.publish_date # result.arg.publish_date

\* --- C2, C3, C4 (IndexSpec) -----------------------------------------------
\* The stored papers for which an association with the term was written
AssociatedPapers(term) == {p \in papers : <<p.id, term>> \in linked}

\* The terms a paper id is joined to through paper_terms and key_terms
TermsOf(paper_id) ==
    {kt.term : kt \in {k \in key_terms :
                          [paper_id |-> paper_id, term_id |-> k.id] \in paper_terms}}

NormalizedTerms(terms) == {Lower(terms[i]) : i \in 1..Len(terms)}

\* C2: every key_terms row's frequency, as get_all_key_terms reports it,
\* equals the number of distinct stored papers associated with the term.
C2_FrequencyIsLiveCount ==
    \A kt \in get_all_key_terms :
        kt.frequency = Cardinality(AssociatedPapers(kt.term))

\* C3: after insert_key_terms(paper_id, terms) the paper is associated with
\* exactly the normalized terms of that call, and a term associated with no
\* stored paper has frequency 0.
C3_ReassociateIsFullReplace ==
    result.op = "insert_key_terms" =>
        /\ TermsOf(result.paper_id) = NormalizedTerms(result.terms)
        /\ \A kt \in key_terms :
              (\A p \in papers : kt.term \notin TermsOf(p.id)) => kt.frequency = 0

\* C4: for every non-empty set T of (normalized) terms, get_papers_by_terms(T)
\* contains every stored paper associated with at least one term of T.
C4_ByTermsFindsEveryAssociatedPaper ==
    \A T \in {<<"tp53">>, <<"mdm2">>, <<"tp53", "mdm2">>} :
        \A p \in papers :
            (\E i \in 1..Len(T) : p \in AssociatedPapers(T[i]))
                => p \in get_papers_by_terms(T)

\* --- C5 (CycleSpec) -------------------------------------------------------
\* C5: a cycle in which the fetch failed or insert_paper reported failure
\* leaves both progress cursors at their previous value.
C5_FailedCycleKeepsCursor ==
    [][(/\ result'.op \in {"update_research", "weekly_update"}
        /\ (result'.fetch_failed \/ result'.store_failed))
          => /\ settings'.last_update_date = settings.last_update_date
             /\ system_metadata'.last_update = system_metadata.last_update]_vars

\* --- C6 .. C10 (SummarySpec) ----------------------------------------------
LatestVersion(language) ==
    IF get_latest_summary(language) = {} THEN 0
    ELSE (CHOOSE e \in get_latest_summary(language) : TRUE).version

\* The request created a summary version
Saves(language, force_regenerate, selected_terms) ==
    /\ api_generate_summary(language, force_regenerate, selected_terms)
    /\ result'.update_type \in {"incremental", "complete"}

\* C6: a request that creates a summary version for language L produces
\* version v + 1, v the latest version stored for L (0 when there is none).
C6_VersionIsPerLanguageSuccessor ==
    [][\A l \in Languages, f \in BOOLEAN, ts \in TermSelections :
          Saves(l, f, ts) => result'.version = LatestVersion(l) + 1]_vars

\* The request is one of the claim's: a summary exists for the language,
\* regeneration is not forced, no paper is newer than the summary
UpToDateRequest(language, selected_terms) ==
    /\ result'.op = "api_generate_summary"
    /\ get_latest_summary(language) # {}
    /\ \A e \in get_latest_summary(language) :
          get_papers_after_date(e.latest_paper_date) = {}
    /\ api_generate_summary(language, FALSE, selected_terms)

ReturnsExistingUnchanged(language) ==
    /\ result'.update_type = "no_update"
    /\ \A e \in get_latest_summary(language) :
          result'.summary = e.content /\ result'.version = e.version
    /\ research_summaries' = research_summaries
    /\ settings' = settings

\* C7 as stated: every such request returns the existing content and version
\* and changes nothing.
C7_UpToDateReturnsExisting ==
    [][\A l \in Languages, ts \in TermSelections :
          UpToDateRequest(l, ts) => ReturnsExistingUnchanged(l)]_vars

\* C7 amended: every such request whose record selection is non-empty
\* returns the existing content and version; in either case no
\* research_summaries row is inserted and the version counter is unchanged.
C7_UpToDateReturnsExistingWhenSelected ==
    [][\A l \in Languages, ts \in TermSelections :
          UpToDateRequest(l, ts) =>
             /\ research_summaries' = research_summaries
             /\ settings' = settings
             /\ (IF ts # <<>> THEN get_papers_by_terms(ts) ELSE get_all_papers) # {}
                   => ReturnsExistingUnchanged(l)]_vars

\* an up-to-date request restricted to a term found its papers and was
\* answered with the stored summary
C7_Witness ==
    /\ result.op = "api_generate_summary"
    /\ result.update_type = "no_update"
    /\ get_papers_by_terms(<<"tp53">>) # {}
    /\ Len(research_summaries) = 2

\* C8: per language, the versions of the summaries created are strictly
\* increasing in creation order, in the history of saves and in the table.
C8_VersionsStrictlyIncrease ==
    /\ \A i \in 1..Len(created), j \in 1..Len(created) :
          (i < j /\ created[i].language = created[j].language)
             => created[i].version < created[j].version
    /\ \A i \in 1..Len(research_summaries), j \in 1..Len(research_summaries) :
          (i < j /\ research_summaries[i].language = research_summaries[j].language)
             => research_summaries[i].version < research_summaries[j].version

\* two versions of one language have been created
C8_Witness ==
    /\ Len(created) >= 2
    /\ \E i \in 1..Len(created), j \in 1..Len(created) :
          i < j /\ created[i].language = created[j].language
    /\ Len(research_summaries) = Len(created)

\* C9: per language, latest_paper_date never decreases from one persisted
\* version to the next.
C9_LatestPaperDateNonDecreasing ==
    \A i \in 1..Len(research_summaries), j \in 1..Len(research_summaries) :
        (i < j /\ research_summaries[i].language = research_summaries[j].language)
           => research_summaries[i].latest_paper_date
                 <= research_summaries[j].latest_paper_date

\* max(a, b) on dates
MaxOf(a, b) == IF a >= b THEN a ELSE b

\* C10: an incremental update persists latest_paper_date =
\* max(existing.latest_paper_date, max publish_date of the new papers).
C10_IncrementalLatestDateIsMax ==
    [][\A l \in Languages, ts \in TermSelections :
          (api_generate_summary(l, FALSE, ts) /\ result'.update_type = "incremental")
             => \A e \in get_latest_summary(l) :
                   research_summaries'[Len(research_summaries')].latest_paper_date
                      = MaxOf(e.latest_paper_date,
                              MaxPublishDate(get_papers_after_date(e.latest_paper_date)))]_vars

\* --- C11, C12, C13 (IndexSpec) --------------------------------------------
\* C11: insert_paper called with a record that has a pmid, a title and a
\* non-empty term list reports success, and afterwards the record is stored
\* and associated with each of its (normalized) terms.
C11_InsertWithTermsStoresAndAssociates ==
    (/\ result.op = "insert_paper"
     /\ result.arg.key_terms # <<>>
     /\ result.arg.pmid # None
     /\ result.arg.title # None)
        => /\ result.ok
           /\ \E p \in papers :
                 /\ p.pmid = result.arg.pmid
                 /\ NormalizedTerms(result.arg.key_terms) \subseteq TermsOf(p.id)

\* C12: an insert_paper call that reports failure leaves papers, key_terms
\* and paper_terms (and their AUTOINCREMENT sequences) exactly as they were.
C12_FailedInsertChangesNothing ==
    [][(result'.op = "insert_paper" /\ ~result'.ok)
          => /\ papers' = papers
             /\ paperSeq' = paperSeq
             /\ key_terms' = key_terms
             /\ termSeq' = termSeq
             /\ paper_terms' = paper_terms]_vars

\* an insert_paper call has failed on a store and an index that hold rows,
\* for a pmid that is stored
C12_Witness ==
    /\ result.op = "insert_paper"
    /\ ~result.ok
    /\ \E p \in papers : p.pmid = result.arg.pmid
    /\ key_terms # {}
    /\ paper_terms # {}

\* The stored records without their surrogate ids
RecordsOf(rows) ==
    {[pmid |-> r.pmid, title |-> r.title, publish_date |-> r.publish_date,
      key_terms |-> r.key_terms] : r \in rows}

\* C13: insert_paper applied again with a record and term list the store
\* already holds (it was applied before with the same values) leaves the
\* stored records, the term index and the records returned by
\* get_papers_by_terms as they were; surrogate ids are not compared.
C13_SecondInsertChangesNothing ==
    [][\A d \in IndexPaperData :
          (d \in RecordsOf(papers) /\ insert_paper(d))
             => /\ RecordsOf(papers') = RecordsOf(papers)
                /\ key_terms' = key_terms
                /\ paper_terms' = paper_terms
                /\ \A T \in {<<"tp53">>, <<"mdm2">>, <<"tp53", "mdm2">>} :
                      RecordsOf(get_papers_by_terms(T)') = RecordsOf(get_papers_by_terms(T))]_vars

\* --- C14 (IndexSpec) ------------------------------------------------------
\* C14: for all term lists T, each papers row is at most once in the result
\* of get_papers_by_terms(T), and every row joined to a term of T is in it.
C14_ByTermsReturnsEachRecordOnce ==
    \A T \in {<<>>, <<"tp53">>, <<"mdm2">>, <<"tp53", "mdm2">>, <<"tp53", "tp53">>} :
        /\ \A p \in DOMAIN papers_by_terms_rows(T) : papers_by_terms_rows(T)[p] = 1
        /\ \A p \in papers :
              (\E i \in 1..Len(T) : T[i] \in TermsOf(p.id))
                 => p \in DOMAIN papers_by_terms_rows(T)

\* a stored paper is joined to both terms of the list asked for
C14_Witness ==
    \E p \in papers :
        /\ {"tp53", "mdm2"} \subseteq TermsOf(p.id)
        /\ p \in get_papers_by_terms(<<"tp53", "mdm2">>)

\* --- C15, C20 (CycleSpec) -------------------------------------------------
\* C15: when a cycle has stored at least one record, the latest 'en' summary
\* version after the cycle is higher than before it (0 when none existed).
C15_CyclePersistsSummary ==
    [][(/\ result'.op \in {"update_research", "weekly_update"}
        /\ result'.processed_count > 0)
          => LatestVersion("en")' > LatestVersion("en")]_vars

\* How many entries of the sequence are the pmid
Occurrences(seq, pmid) == Cardinality({i \in 1..Len(seq) : seq[i] = pmid})

\* C20: in every cycle, manual or scheduled, no fetched record whose pmid was
\* stored before the cycle is analysed or upserted, and each fetched pmid that
\* was not stored is analysed exactly once.
C20_StoredRecordsSkipped ==
    [][result'.op \in {"update_research", "weekly_update"}
          => \A i \in 1..Len(result'.fetched) :
                LET pmid == result'.fetched[i] IN
                IF paper_exists(papers, pmid)
                THEN /\ Occurrences(result'.analysed, pmid) = 0
                     /\ Occurrences(result'.upserted, pmid) = 0
                ELSE pmid # None => Occurrences(result'.analysed, pmid) = 1]_vars

\* --- C17 (FetchSpec) ------------------------------------------------------
\* C17: the aggregated result of scrape_search_results over the pages of one
\* result set never holds the same pmid twice.
C17_AggregatedResultHasNoDuplicate ==
    result.op = "scrape_search_results" =>
        \A i \in 1..Len(result.all_papers), j \in 1..Len(result.all_papers) :
            (i # j /\ result.all_papers[i].pmid # None)
               => result.all_papers[i].pmid # result.all_papers[j].pmid

\* two pages were fetched and aggregated, up to the limit, from a result set
\* longer than the limit
C17_Witness ==
    /\ result.op = "scrape_search_results"
    /\ Len(result.all_papers) = fetch_limit
    /\ Len(result.result_set) > fetch_limit

\* --- C16 (RateSpec) -------------------------------------------------------
\* C16: whenever a thread sends a request to the search service, no other
\* request is in flight and at least request_delay has passed since the
\* previous request was sent, whichever thread sent it.
C16_RequestsSerializedUnderOneBudget ==
    [][\A c \in Callers :
          send_request(c) =>
             /\ \A o \in Callers : callers[o].pc # "in_flight"
             /\ wire.sent > 0 => wire.since_last >= request_delay]_vars

\* --- C18, C19 (SaveSpec) --------------------------------------------------
\* C18: every summary version that was saved is still stored, with the
\* content it was saved with, whatever calls of save_research_summary
\* followed or ran at the same time.
C18_HistoryRetained ==
    \A i \in 1..Len(created) :
        \E j \in 1..Len(research_summaries) :
            /\ research_summaries[j].version = created[i].version
            /\ research_summaries[j].language = created[i].language
            /\ research_summaries[j].content = created[i].content

\* The highest version number stored, 0 when nothing is stored
HighestVersionStored ==
    IF research_summaries = <<>> THEN 0
    ELSE CHOOSE v \in {research_summaries[i].version : i \in 1..Len(research_summaries)} :
            \A i \in 1..Len(research_summaries) : research_summaries[i].version <= v

\* C19: in every state, the version counter equals the highest version
\* number stored, and every stored row is, field by field, the row one
\* save_research_summary call wrote.
C19_CounterMatchesStoredVersions ==
    /\ settings.summary_version = HighestVersionStored
    /\ \A j \in 1..Len(research_summaries) :
          \E i \in 1..Len(created) : created[i] = research_summaries[j]

\* --- C21 (CycleSpec) ------------------------------------------------------
\* The date a completed cycle wrote as the new boundary: the cursor its entry
\* point updates, as it reads after the cycle
BoundaryWritten ==
    IF result.returned # "processed" THEN NullDate
    ELSE IF result.op = "update_research" THEN get_last_update_date
    ELSE get_last_update

\* C21: a cycle that follows a completed cycle and fetches from a boundary
\* (every cycle but the initial population) reads as its boundary the date
\* that completed cycle wrote, whichever entry points ran the two cycles.
C21_SingleProgressCursor ==
    [][(/\ result.op \in {"update_research", "weekly_update"}
        /\ result.returned = "processed"
        /\ result'.op \in {"update_research", "weekly_update"}
        /\ result'.after_date # NullDate)
          => result'.after_date = BoundaryWritten]_vars

\* --- C22, C23 (CatalogSpec) -----------------------------------------------
\* Saving or deleting a specialized summary leaves research_summaries and the
\* version counter unchanged; generating a main summary leaves the catalog
\* unchanged
CatalogAndLineageIndependent ==
    /\ result'.op \in {"api_generate_specialized_summary", "delete_specialized_summary"}
          => research_summaries' = research_summaries /\ settings' = settings
    /\ result'.op = "api_generate_summary"
          => /\ specialized_summaries' = specialized_summaries
             /\ specializedSeq' = specializedSeq

\* The request generated a summary from every record its terms select and
\* stored it as a new catalog entry
CreatesCatalogEntry(language, selected_terms, summary_name) ==
    /\ result'.status = 200
    /\ result'.total_papers = Cardinality(get_papers_by_terms(selected_terms))
    /\ \E r \in specialized_summaries' \ specialized_summaries :
          /\ r.id = result'.summary_id
          /\ \A q \in specialized_summaries : q.id # r.id
          /\ r.name = summary_name
          /\ r.language = language
          /\ r.focus_terms = selected_terms
          /\ r.content = result'.summary
    /\ specialized_summaries \subseteq specialized_summaries'

IdsReturned == {h.id : h \in catalog_history.saved}

\* C23: a successful save_specialized_summary returns an id that no earlier
\* save returned; get_specialized_summary(id) returns what was saved under
\* the id until delete_specialized_summary(id) is called and nothing after
\* it; delete reports success exactly when the id was in the catalog.
C23_CatalogLifecycle ==
    /\ [](\A h \in catalog_history.saved :
             get_specialized_summary(h.id) =
                IF h.id \in catalog_history.deleted THEN {} ELSE {h})
    /\ [][/\ (result'.op = "api_generate_specialized_summary"
                 /\ result'.status = 200 /\ result'.summary_id # 0)
             => /\ result'.summary_id \notin IdsReturned
                /\ result'.summary_id \in IdsReturned'
          /\ result'.op = "delete_specialized_summary"
             => /\ result'.success = (get_specialized_summary(result'.summary_id) # {})
                /\ \A r \in specialized_summaries' : r.id # result'.summary_id]_vars

\* an entry was saved after the only entry, which had the highest id, had
\* been deleted
C23_Witness ==
    /\ result.op = "api_generate_specialized_summary"
    /\ result.status = 200
    /\ result.summary_id = 2
    /\ catalog_history.deleted = {1}
    /\ get_specialized_summary(1) = {}
    /\ get_specialized_summary(2) # {}

\* --- C24 (SummarySpec) ----------------------------------------------------
\* C24: for every date d, get_papers_after_date(d) holds exactly the stored
\* records whose publish_date is later than d; in particular no record dated
\* as the latest summary's latest_paper_date is among the new papers of a
\* summary request.
C24_AfterDateIsStrict ==
    /\ \A d \in Dates :
          get_papers_after_date(d) =
             {p \in papers : p.publish_date # NullDate /\ p.publish_date > d}
    /\ \A l \in Languages : \A e \in get_latest_summary(l) :
          \A p \in get_papers_after_date(e.latest_paper_date) :
              p.publish_date # e.latest_paper_date

\* a record dated as the latest summary and a later record are stored: only
\* the later one is new
C24_Witness ==
    \E e \in get_latest_summary("en") :
        /\ \E p \in papers : p.publish_date = e.latest_paper_date
        /\ get_papers_after_date(e.latest_paper_date) # {}
        /\ get_papers_after_date(e.latest_paper_date) # DatedPapers(papers)

\* --- C25 (PageSpec) -------------------------------------------------------
\* The j-th smallest member of a set of indices
NthOf(S, j) == CHOOSE i \in S : Cardinality({k \in S : k <= i}) = j

\* The records of the articles at the indices S, in the order of the articles
RecordsAt(articles, S) == [j \in 1..Cardinality(S) |-> articles[NthOf(S, j)].paper]

\* The offset of the page request that asks for the article at index i
PageOf(i) == ((i - 1) \div batch_size) * batch_size

\* How many records a run with a continuation token asks for
TotalPapers(r) == Min(Len(r.result_set), fetch_limit)

PagedRun(r) ==
    r.op = "scrape_search_results" /\ r.search_ok /\ r.has_webenv

\* C25: a page whose request succeeded yields exactly the records of its
\* articles that could be read, in order, and the aggregated result holds
\* exactly the readable articles of every page whose request succeeded: an
\* article that cannot be read removes no other article and ends no run.
C25_FailedEntrySkippedIndividually ==
    PagedRun(result) =>
        /\ \A k \in 1..Len(result.requests) :
              LET q == result.requests[k]
                  last == Min(q.retstart + q.retmax, Len(result.result_set))
                  kept == {i \in (q.retstart + 1)..last : ~result.result_set[i].raises}
              IN  result.page_ok[q.retstart]
                     => q.papers = RecordsAt(result.result_set, kept)
        /\ result.all_papers =
              RecordsAt(result.result_set,
                        {i \in 1..TotalPapers(result) :
                            ~result.result_set[i].raises /\ result.page_ok[PageOf(i)]})

\* the first article of the first page cannot be read, the second can, and
\* the second page is retrieved as well
C25_Witness ==
    /\ PagedRun(result)
    /\ Len(result.result_set) >= fetch_limit
    /\ result.result_set[1].raises /\ ~result.result_set[2].raises
    /\ ~result.result_set[fetch_limit].raises
    /\ \A start \in DOMAIN result.page_ok : result.page_ok[start]
    /\ Len(result.all_papers) = fetch_limit - 1

\* --- C26 (PageSpec) -------------------------------------------------------
\* C26: no call of the fetcher ends with an exception; after a failed search
\* scrape_search_results returns the empty list and get_paper_count returns
\* 0; a failed page request yields no record while every page of the run is
\* still requested.
C26_FailuresStayInFetcher ==
    /\ result.op \in {"scrape_search_results", "get_paper_count"} => ~result.raised
    /\ (result.op = "scrape_search_results" /\ ~result.search_ok)
          => result.all_papers = <<>>
    /\ (result.op = "get_paper_count" /\ ~result.search_ok) => result.count = 0
    /\ PagedRun(result) =>
          /\ \A k \in 1..Len(result.requests) :
                ~result.page_ok[result.requests[k].retstart]
                    => result.requests[k].papers = <<>>
          /\ \A i \in 1..TotalPapers(result) :
                \E k \in 1..Len(result.requests) :
                    result.requests[k].retstart = PageOf(i)
          /\ \A i \in 1..TotalPapers(result) :
                (result.page_ok[PageOf(i)] /\ ~result.result_set[i].raises)
                    => \E j \in 1..Len(result.all_papers) :
                          result.all_papers[j] = result.result_set[i].paper

\* the request for the first page failed and the records of the second page
\* were returned
C26_Witness ==
    /\ PagedRun(result)
    /\ ~result.page_ok[0]
    /\ Len(result.requests) > 1
    /\ result.all_papers # <<>>

\* --- C28 (PageSpec) -------------------------------------------------------
\* The offsets a page request asks for
RangeOf(q) == q.retstart .. (q.retstart + q.retmax - 1)

\* C28: a run with a continuation token and count c asks for the pages at
\* offsets 0, batch_size, 2 * batch_size, ..., each with a limit between 1
\* and batch_size; the ranges asked for are pairwise disjoint and cover
\* exactly 0 .. min(c, fetch_limit) - 1, in ceil(min(c, fetch_limit) /
\* batch_size) requests, whether the page requests succeed or fail.
C28_PagesCoverResultSet ==
    PagedRun(result) =>
        LET n == Len(result.requests) IN
        /\ \A k \in 1..n :
              /\ result.requests[k].retstart = (k - 1) * batch_size
              /\ result.requests[k].retmax \in 1..batch_size
        /\ \A k \in 1..n, l \in 1..n :
              k # l => RangeOf(result.requests[k]) \cap RangeOf(result.requests[l]) = {}
        /\ UNION {RangeOf(result.requests[k]) : k \in 1..n} = 0..(TotalPapers(result) - 1)
        /\ n = (TotalPapers(result) + batch_size - 1) \div batch_size

\* the count is over the limit, the last page is shorter than batch_size and
\* a page request failed
C28_Witness ==
    /\ PagedRun(result)
    /\ Len(result.result_set) > fetch_limit
    /\ Len(result.requests) = 2
    /\ result.requests[2].retmax < batch_size
    /\ \E start \in DOMAIN result.page_ok : ~result.page_ok[start]

\* --- C27 (ListSpec) -------------------------------------------------------
\* C27: a record whose insert_paper returned success is a row of papers;
\* get_stats counts every row of papers; get_all_papers returns rows of
\* papers, each at most once, in non-increasing publish_date order: all of
\* them without a limit, and with a limit n >= 1 the min(n, rows) rows that
\* no row left out is dated later than.
C27_StoredRecordsListedLatestFirst ==
    [][/\ (result'.op = "insert_paper" /\ result'.ok)
            => \E p \in get_all_papers' :
                  /\ p.pmid = result'.arg.pmid
                  /\ p.title = result'.arg.title
                  /\ p.publish_date = result'.arg.publish_date
       /\ result'.op = "get_stats" => result'.total_papers = Cardinality(papers')
       /\ result'.op = "get_all_papers" =>
            LET rows == result'.rows
                returned == {rows[i] : i \in 1..Len(rows)}
            IN  /\ returned \subseteq papers'
                /\ Cardinality(returned) = Len(rows)
                /\ \A i \in 1..Len(rows), j \in 1..Len(rows) :
                      i < j => rows[i].publish_date >= rows[j].publish_date
                /\ result'.limit = 0 => returned = papers'
                /\ result'.limit >= 1 =>
                      /\ Len(rows) <= result'.limit
                      /\ Len(rows) = Min(result'.limit, Cardinality(papers'))
                      /\ \A r \in returned, p \in papers' \ returned :
                            r.publish_date >= p.publish_date]_vars

\* two records with different dates are stored and the listing with limit 1
\* returned the later one
C27_Witness ==
    /\ result.op = "get_all_papers"
    /\ result.limit = 1
    /\ Len(result.rows) = 1
    /\ \E p \in papers : p.publish_date # NullDate /\ p.publish_date < result.rows[1].publish_date

\* --- C29, C30 (IndexSpec) -------------------------------------------------
\* The spellings a term can be queried by
Spellings == {"TP53", "tp53", "MDM2", "mdm2"}

\* C29: right after insert_key_terms associated a stored record with a term
\* t, get_papers_by_terms([t']) returns the record for every spelling t' that
\* equals t up to letter case, t itself included.
C29_TermMatchingNormalizedBothWays ==
    [][result'.op = "insert_key_terms" =>
          \A p \in papers' :
              p.id = result'.paper_id =>
                 \A k \in 1..Len(result'.terms), t \in Spellings :
                     Lower(t) = Lower(result'.terms[k])
                        => p \in get_papers_by_terms(<<t>>)']_vars

\* C30: every paper_terms row refers to the id of a papers row and to the id
\* of a key_terms row.
C30_NoDanglingAssociation ==
    \A pt \in paper_terms :
        /\ \E p \in papers : p.id = pt.paper_id
        /\ \E kt \in key_terms : kt.id = pt.term_id

\* --- C31 (SummarySpec) ----------------------------------------------------
\* C31: a complete generation stores paper_count = the number of records
\* selected for it, and an incremental update of a version with paper_count m
\* that incorporates N new records stores paper_count = m + N.
C31_PaperCountIsRecordsReflected ==
    [][\A l \in Languages, f \in BOOLEAN, ts \in TermSelections :
          api_generate_summary(l, f, ts) =>
             LET row == research_summaries'[Len(research_summaries')] IN
             /\ result'.update_type = "complete"
                   => row.paper_count =
                         Cardinality(IF ts # <<>> THEN get_papers_by_terms(ts)
                                     ELSE get_all_papers)
             /\ result'.update_type = "incremental"
                   => \A e \in get_latest_summary(l) :
                         row.paper_count = e.paper_count
                            + Cardinality(get_papers_after_date(e.latest_paper_date))]_vars

C33_PublishDateDefaults ==
    (result.op = "extract_publish_date" /\ result.emitted) =>
        LET e == result.entry
            d == result.publish_date
        IN  /\ d # None
            /\ (~e.pub_date \/ e.year = Absent) => d = DefaultPublishDate
            /\ (e.pub_date /\ e.year \in YearTexts) =>
                  /\ d[1] = e.year
                  /\ e.month \in {Absent, "Spring"} => d[2] = "01"
                  /\ e.day \in {Absent, Empty, "1st"} => d[3] = "01"

\* --- C34 (CatalogSpec) ----------------------------------------------------
\* C34: a summary request that selects no record (no stored record, or a
\* term filter no record matches; for a specialized summary also an empty
\* term list) is answered with an error and changes nothing: no summary
\* version, no change of the version counter, no specialized summary.
C34_EmptySelectionChangesNothing ==
    [][/\ \A f \in BOOLEAN, ts \in TermSelections :
             (/\ api_generate_summary("en", f, ts)
              /\ (IF ts # <<>> THEN get_papers_by_terms(ts) ELSE get_all_papers) = {})
                => /\ result'.status = 400
                   /\ UNCHANGED <<storeVars, indexVars, summaryVars, catalogVars>>
       /\ \A l \in Languages, ts \in TermSelections, n \in {"N", None} :
             (/\ api_generate_specialized_summary(l, ts, n)
              /\ (ts = <<>> \/ get_papers_by_terms(ts) = {}))
                => /\ result'.status = 400
                   /\ UNCHANGED <<storeVars, indexVars, summaryVars, catalogVars>>]_vars

\* A specialized request answered with an error while records and a summary
\* version are stored
C34_Witness ==
    /\ result.op = "api_generate_specialized_summary"
    /\ result.status = 400
    /\ papers # {}
    /\ research_summaries # <<>>
    /\ specialized_summaries = {}

\* --- C35 (StoreSpec) ------------------------------------------------------
\* C35: insert_paper of a record without a pmid returns False and leaves the
\* table as it was, and no stored row ever has a NULL pmid.
C35_NoRowWithoutPmid ==
    [][/\ \A d \in PaperData :
             (insert_paper(d) /\ d.pmid = None)
                => (~result'.ok /\ UNCHANGED storeVars)
       /\ \A p \in papers' : p.pmid # None]_vars

\* A record without a pmid (and otherwise acceptable) was refused while
\* other records are stored
C35_Witness ==
    /\ result.op = "insert_paper"
    /\ result.arg.pmid = None
    /\ result.arg.title # None
    /\ result.arg.key_terms = <<>>
    /\ ~result.ok
    /\ papers # {}

\* --- C36 (SchedulerSpec) --------------------------------------------------
\* C36: whatever start_scheduler and stop_scheduler calls were made, at most
\* one scheduler loop is alive and at most one weekly job is registered.
C36_OneLoopOneJob ==
    /\ Cardinality(AliveLoops) <= 1
    /\ Cardinality(jobs) <= 1

\* --- C37 (IndexSpec) ------------------------------------------------------
\* C37: get_papers_by_terms with an empty term list returns every stored
\* record, each once: what get_all_papers returns.
C37_EmptyTermListReturnsAll ==
    /\ get_papers_by_terms(<<>>) = get_all_papers
    /\ \A p \in get_all_papers : papers_by_terms_rows(<<>>)[p] = 1

\* Records are stored, one associated with a term and one with none, which
\* no term filter returns and the empty list does
C37_Witness ==
    /\ get_papers_by_terms(<<"tp53">>) # {}
    /\ \E p \in papers :
          /\ \A ts \in TermLists \ {<<>>} : p \notin get_papers_by_terms(ts)
          /\ p \in get_papers_by_terms(<<>>)

=============================================================================
